---- MODULE Spec2Model ----
(***************************************************************************)
(* Model of streamlit_app.py: the sea-water-temperature query page.        *)
(*                                                                         *)
(* A text is a sequence of symbols.  A symbol is one delimiter character   *)
(* (" ", "\t", ",", "\n"), the comment mark "#", or a word: a maximal run  *)
(* of other characters ("202401010000", "15.2", "-", ...).                 *)
(***************************************************************************)
EXTENDS Integers, Sequences, FiniteSets, TLC

VARIABLES auth_key, station_id, selected_date, button, pc, request_log,
          response, text_data, df, result_df, ui, parser_calls, projections

vars == <<auth_key, station_id, selected_date, button, pc, request_log,
          response, text_data, df, result_df, ui, parser_calls, projections>>

(* ------------------------------ bounds ------------------------------- *)

\* Longest response text, in lines.
MaxLines == 2
\* Most tokens a data line may lack / have in excess of the column schema.
MaxShort == 1
MaxExtra == 1

(* ----------------------------- constants ----------------------------- *)

\* columns = ["TM", "STN", ..., "TW"]: 24 names, TM first, TW last.
NCols == 24
TMCol == 1
TWCol == 24
StatusOK == 200

\* STATION_INFO keys (two of the sixteen) and their display names.
Stations == {"22101", "22102"}

STATION_INFO(s) == IF s = "22101" THEN "Deokjeokdo" ELSE "Chilbaldo"

Dates == {<<2024, 1, 1>>, <<2024, 12, 31>>}

AuthKeys == {"", "KEY"}

(* ------------------------------ symbols ------------------------------ *)

Whitespace == {" ", "\t"}

\* Words that read as integers, as decimals, as a missing value.
IntWords == {"202401010000", "202401010100", "202413010000", "22101"}

FloatWords == {"15.2", "0.5"}

NAWords == {"NaN"}

\* Integer words that match %Y%m%d%H%M, with the time they denote.
TimestampWords == {"202401010000", "202401010100"}

StrpTime(w) == IF w = "202401010000" THEN <<2024, 1, 1, 0, 0>>
               ELSE <<2024, 1, 1, 1, 0>>

\* The missing-value cell (NaN) of a table.
NaNCell == <<>>

\* The missing timestamp and the missing number of a coerced column; a
\* timestamp is <<Y, m, d, H, M>> and a number is <<word>>.
NaT == <<>>

NaN == <<>>

(* ------------------------- string operations ------------------------- *)

RECURSIVE IndexOf(_, _, _)
\* Least i >= from with s[i] \in set, or 0.
IndexOf(s, set, from) ==
  IF from > Len(s) THEN 0
  ELSE IF s[from] \in set THEN from
  ELSE IndexOf(s, set, from + 1)

RECURSIVE SplitLines(_)
\* str.splitlines(): cut at every "\n"; a final "\n" opens no empty line.
SplitLines(s) ==
  IF s = <<>> THEN <<>>
  ELSE LET i == IndexOf(s, {"\n"}, 1)
       IN  IF i = 0 THEN <<s>>
           ELSE <<SubSeq(s, 1, i - 1)>> \o SplitLines(SubSeq(s, i + 1, Len(s)))

RECURSIVE LStrip(_)
LStrip(s) ==
  IF s # <<>> /\ Head(s) \in Whitespace THEN LStrip(Tail(s)) ELSE s

RECURSIVE RStrip(_)
RStrip(s) ==
  IF s # <<>> /\ s[Len(s)] \in Whitespace
  THEN RStrip(SubSeq(s, 1, Len(s) - 1)) ELSE s

\* str.strip()
Strip(s) == RStrip(LStrip(s))

\* Variant without strip(): line.startswith('#').
IsCommentNoStrip(line) == line # <<>> /\ Head(line) = "#"

\* line.strip().startswith('#')
IsComment(line) == Strip(line) # <<>> /\ Head(Strip(line)) = "#"

RECURSIVE Join(_)
\* "\n".join(lines)
Join(lines) ==
  IF lines = <<>> THEN <<>>
  ELSE IF Len(lines) = 1 THEN lines[1]
  ELSE lines[1] \o <<"\n">> \o Join(Tail(lines))

RECURSIVE SelectLines(_)
\* [line for line in lines if not line.strip().startswith('#')]
SelectLines(lines) ==
  IF lines = <<>> THEN <<>>
  ELSE IF IsComment(Head(lines)) THEN SelectLines(Tail(lines))
  ELSE <<Head(lines)>> \o SelectLines(Tail(lines))

RECURSIVE SplitOn(_, _)
\* The maximal runs of symbols of s outside delims, in order.
SplitOn(s, delims) ==
  IF s = <<>> THEN <<>>
  ELSE IF Head(s) \in delims THEN SplitOn(Tail(s), delims)
  ELSE LET i == IndexOf(s, delims, 1)
       IN  IF i = 0 THEN <<s>>
           ELSE <<SubSeq(s, 1, i - 1)>> \o SplitOn(SubSeq(s, i + 1, Len(s)), delims)

\* delim_whitespace=True: fields are separated by runs of spaces and tabs,
\* and by nothing else; a comma is an ordinary character of a field.
Tokenize(line) == SplitOn(line, Whitespace)

(* ----------------------------- read_csv ------------------------------ *)

RECURSIVE TokenRows(_)
\* The records of the file, tokenised; blank and whitespace-only lines are
\* skipped (skip_blank_lines).
TokenRows(lines) ==
  IF lines = <<>> THEN <<>>
  ELSE IF Tokenize(Head(lines)) = <<>> THEN TokenRows(Tail(lines))
  ELSE <<Tokenize(Head(lines))>> \o TokenRows(Tail(lines))

\* A field as stored: the default na_values become NaN.
Cell(tok) == IF Len(tok) = 1 /\ tok[1] \in NAWords THEN NaNCell ELSE tok

\* Number of fields per record: that of the first record, and at least one
\* per name.
TableWidth(rows) == IF Len(rows[1]) > NCols THEN Len(rows[1]) ELSE NCols

\* Variant that accepts every record.
TooManyFieldsNever(rows) == FALSE

\* A later record with more fields than the table is a tokenising error
\* ("Expected n fields in line k, saw m").
TooManyFields(rows) ==
  \E i \in 2..Len(rows) : Len(rows[i]) > TableWidth(rows)

\* The j-th field of a record; a record with fewer fields is filled with NaN.
Field(row, j) == IF j <= Len(row) THEN Cell(row[j]) ELSE NaNCell

\* The named columns of a record: with more fields than names the leading
\* fields become the index and the names go to the last NCols fields.
NamedFields(row, width) == [c \in 1..NCols |-> Field(row, c + (width - NCols))]

EmptyFrame == [columns |-> {}, rows |-> <<>>]

\* pd.read_csv(data_io, header=None, delim_whitespace=True, names=columns):
\* the table, or raised = TRUE for a ParserError.
ReadCsv(data) ==
  LET rows == TokenRows(SplitLines(data))
  IN  IF rows = <<>>
      THEN [raised |-> FALSE, frame |-> [columns |-> 1..NCols, rows |-> <<>>]]
      ELSE IF TooManyFields(rows)
      THEN [raised |-> TRUE, frame |-> EmptyFrame]
      ELSE [raised |-> FALSE,
            frame  |-> [columns |-> 1..NCols,
                        rows    |-> [i \in 1..Len(rows) |->
                                       NamedFields(rows[i], TableWidth(rows))]]]

(* --------------------------- ui elements ----------------------------- *)

\* One element written to the page: st.<kind>(...), with the status code and
\* the text or table it shows (0 and <<>> when it shows none).
Elem(kind, msg, code, body) ==
  [kind |-> kind, msg |-> msg, code |-> code, body |-> body]

(* -------------------------- parse_kma_data --------------------------- *)

\* parse_kma_data(text_data): the DataFrame returned and what it wrote to
\* the page (st.error on an exception of read_csv).
parse_kma_data(text) ==
  LET lines == SelectLines(SplitLines(text))
      r     == ReadCsv(Join(lines))
  IN  IF lines = <<>> THEN [frame |-> EmptyFrame, out |-> <<>>]
      ELSE IF r.raised
      THEN [frame |-> EmptyFrame, out |-> <<Elem("error", "parse_error", 0, <<>>)>>]
      ELSE [frame |-> r.frame, out |-> <<>>]

\* df.empty
Empty(frame) == frame.columns = {} \/ frame.rows = <<>>

(* ------------------- projection and type coercion -------------------- *)

Kind(cell) ==
  IF cell = NaNCell THEN "na"
  ELSE IF Len(cell) = 1 /\ cell[1] \in IntWords THEN "int"
  ELSE IF Len(cell) = 1 /\ cell[1] \in FloatWords THEN "float"
  ELSE "str"

\* The dtype read_csv infers for column c: int64 when every field is an
\* integer, float64 when every field is a number or missing, else object.
ColDtype(rows, c) ==
  IF \A i \in 1..Len(rows) : Kind(rows[i][c]) = "int" THEN "int64"
  ELSE IF \A i \in 1..Len(rows) : Kind(rows[i][c]) \in {"int", "float", "na"}
       THEN "float64"
  ELSE "object"

\* pd.to_datetime(..., format='%Y%m%d%H%M', errors='coerce') on one value
\* of a column of the given dtype.  A non-string value is matched as
\* str(value): an int64 as its digits, a float64 with a trailing ".0",
\* which the format does not match.
ToDatetime(cell, dtype) ==
  IF Kind(cell) = "int" /\ dtype # "float64" /\ cell[1] \in TimestampWords
  THEN StrpTime(cell[1]) ELSE NaT

\* pd.to_numeric(..., errors='coerce') on one value.
ToNumeric(cell, dtype) ==
  IF Kind(cell) \in {"int", "float"} THEN <<cell[1]>> ELSE NaN

\* One row of result_df before dropna; idx is the row's index label.
Coerce(frame, i) ==
  [idx |-> i,
   TM  |-> ToDatetime(frame.rows[i][TMCol], ColDtype(frame.rows, TMCol)),
   TW  |-> ToNumeric(frame.rows[i][TWCol], ColDtype(frame.rows, TWCol))]

RECURSIVE DropNAFrom(_, _)
\* result_df.dropna(inplace=True), from row i on.
DropNAFrom(frame, i) ==
  IF i > Len(frame.rows) THEN <<>>
  ELSE IF Coerce(frame, i).TM = NaT \/ Coerce(frame, i).TW = NaN
  THEN DropNAFrom(frame, i + 1)
  ELSE <<Coerce(frame, i)>> \o DropNAFrom(frame, i + 1)

\* df[['TM', 'TW']] coerced, rows with a missing value dropped.
Project(frame) == DropNAFrom(frame, 1)

(* ------------------------- the button handler ------------------------ *)

\* The initial guidance (st.info) of a run without a button press.
InfoPage == <<Elem("info", "guide", 0, <<>>)>>

\* selected_date.strftime('%Y%m%d')
StrfDate(d) == d[1] * 10000 + d[2] * 100 + d[3]

\* request_url: tm, stn, help=0 and authKey.
RequestUrl(key, stn, d) ==
  [tm |-> StrfDate(d), stn |-> stn, help |-> 0, authKey |-> key]

\* The success branch: the banner, the chart of TW over TM and the table.
RenderSuccess(res, stn, d) ==
  << Elem("success", STATION_INFO(stn), StrfDate(d), <<>>),
     Elem("subheader", "chart", 0, <<>>),
     Elem("line_chart", "TW", 0, res),
     Elem("subheader", "table", 0, <<>>),
     Elem("dataframe", "renamed", 0, res) >>

\* Whether df passes `not df.empty and 'TW' in df.columns and 'TM' in
\* df.columns`.
HasData(frame) ==
  ~Empty(frame) /\ TWCol \in frame.columns /\ TMCol \in frame.columns

\* Variant without `if not result_df.empty`.
DispatchNoEmptyCheck(frame, text, stn, d) ==
  IF HasData(frame)
  THEN [projected |-> 1, result |-> Project(frame),
        out |-> RenderSuccess(Project(frame), stn, d)]
  ELSE [projected |-> 0, result |-> <<>>,
        out |-> <<Elem("error", "no_data", 0, <<>>),
                  Elem("code", "raw", 0, text)>>]

\* Variant that also shows the raw text under the warning.
DispatchShowsRaw(frame, text, stn, d) ==
  IF HasData(frame)
  THEN LET res == Project(frame)
       IN  [projected |-> 1, result |-> res,
            out |-> IF res # <<>> THEN RenderSuccess(res, stn, d)
                    ELSE <<Elem("warning", "no_valid", 0, <<>>),
                           Elem("code", "raw", 0, text)>>]
  ELSE [projected |-> 0, result |-> <<>>,
        out |-> <<Elem("error", "no_data", 0, <<>>),
                  Elem("code", "raw", 0, text)>>]

\* What the handler does with the parsed table: the projected table and
\* what it writes to the page.
Dispatch(frame, text, stn, d) ==
  IF HasData(frame)
  THEN LET res == Project(frame)
       IN  [projected |-> 1, result |-> res,
            out |-> IF res # <<>> THEN RenderSuccess(res, stn, d)
                    ELSE <<Elem("warning", "no_valid", 0, <<>>)>>]
  ELSE [projected |-> 0, result |-> <<>>,
        out |-> <<Elem("error", "no_data", 0, <<>>),
                  Elem("code", "raw", 0, text)>>]

\* The answer to a response with another status than 200.
RequestFailed(status, text) ==
  <<Elem("error", "request_failed", status, <<>>), Elem("code", "raw", 0, text)>>

(* ------------------------------ inputs ------------------------------- *)

RECURSIVE JoinWords(_, _)
JoinWords(ws, sep) ==
  IF Len(ws) <= 1 THEN ws
  ELSE <<Head(ws)>> \o sep \o JoinWords(Tail(ws), sep)

\* A data line of n tokens in schema order: the time first, the station
\* second, the water temperature in the 24th place.
DataLine(tm, tw, n, sep) ==
  JoinWords([i \in 1..n |-> IF i = TMCol THEN tm
                            ELSE IF i = 2 THEN "22101"
                            ELSE IF i = TWCol THEN tw
                            ELSE "0.5"], sep)

CommentLines == { <<"#", "START7777">>, <<" ", "#", "header">> }

BlankLines == { <<" ">> }

TokenCounts == (NCols - MaxShort)..(NCols + MaxExtra)

TimedValues == { <<"202401010000", "15.2">>, <<"202401010100", "-">>,
                 <<"202413010000", "15.2">>, <<"NaN", "15.2">> }

Separators == { <<"\t">>, <<" ", "\t">>, <<",">>, <<",", " ">> }

LineSet ==
  CommentLines \cup BlankLines
  \cup { DataLine(v[1], v[2], n, <<" ">>) : v \in TimedValues, n \in TokenCounts }
  \cup { DataLine("202401010000", "15.2", NCols, sep) : sep \in Separators }

TextsOver(lines) ==
  { Join(ls) : ls \in UNION { [1..k -> lines] : k \in 0..MaxLines } }

\* The texts the parser is applied to.
Texts == TextsOver(LineSet)

\* The response bodies of the orchestrator's runs.
BodyLineSet ==
  { <<"#", "START7777">>,
    DataLine("202401010000", "15.2", NCols, <<" ">>),
    DataLine("202401010100", "-", NCols, <<" ">>),
    DataLine("202413010000", "15.2", NCols, <<" ">>),
    DataLine("202401010000", "15.2", NCols + MaxExtra, <<" ">>) }

BodyTexts == TextsOver(BodyLineSet)

StatusCodes == {StatusOK, 404, 500}

NetworkErrors == {"ConnectionError", "Timeout"}

(* ------------------------- the page's script ------------------------- *)

\* What requests.get gave the current run: nothing yet, a response with
\* its status code and text, or a raised RequestException.
NoResponse == [status |-> 0, text |-> <<>>, raised |-> ""]

\* Variant: `if response.status_code:`.
IsOKAnyStatus(status) == status # 0

\* response.status_code == 200
IsOK(status) == status = StatusOK

\* The page as first served: no key typed, the first station selected,
\* today's date, the button not pressed, the guidance shown.
Init ==
  /\ auth_key = ""
  /\ station_id = "22101"
  /\ selected_date \in Dates
  /\ button = FALSE
  /\ pc = "done"
  /\ request_log = <<>>
  /\ response = NoResponse
  /\ text_data = <<>>
  /\ df = EmptyFrame
  /\ result_df = <<>>
  /\ ui = InfoPage
  /\ parser_calls = 0
  /\ projections = 0

\* A run of the script caused by a change of a sidebar widget: the button
\* reads False and only the guidance is written.
RunWithoutPress ==
  /\ button' = FALSE
  /\ pc' = "done"
  /\ request_log' = <<>>
  /\ response' = NoResponse
  /\ text_data' = <<>>
  /\ df' = EmptyFrame
  /\ result_df' = <<>>
  /\ ui' = InfoPage
  /\ parser_calls' = 0
  /\ projections' = 0

EnterAuthKey(k) ==
  /\ pc = "done"
  /\ k # auth_key
  /\ auth_key' = k
  /\ UNCHANGED <<station_id, selected_date>>
  /\ RunWithoutPress

SelectStation(s) ==
  /\ pc = "done"
  /\ s # station_id
  /\ station_id' = s
  /\ UNCHANGED <<auth_key, selected_date>>
  /\ RunWithoutPress

PickDate(d) ==
  /\ pc = "done"
  /\ d # selected_date
  /\ selected_date' = d
  /\ UNCHANGED <<auth_key, station_id>>
  /\ RunWithoutPress

\* Variant without `if not auth_key`.
PressButtonUnchecked ==
  /\ pc = "done"
  /\ button' = TRUE
  /\ response' = NoResponse
  /\ text_data' = <<>>
  /\ df' = EmptyFrame
  /\ result_df' = <<>>
  /\ parser_calls' = 0
  /\ projections' = 0
  /\ pc' = "waiting"
  /\ request_log' = <<[url |-> RequestUrl(auth_key, station_id, selected_date),
                         timeout |-> 10]>>
  /\ ui' = <<>>
  /\ UNCHANGED <<auth_key, station_id, selected_date>>

\* The run caused by the button, up to the call of requests.get: without a
\* key it ends with the error, with one it issues the request and waits.
PressButton ==
  /\ pc = "done"
  /\ button' = TRUE
  /\ response' = NoResponse
  /\ text_data' = <<>>
  /\ df' = EmptyFrame
  /\ result_df' = <<>>
  /\ parser_calls' = 0
  /\ projections' = 0
  /\ IF auth_key = ""
     THEN /\ pc' = "done"
          /\ request_log' = <<>>
          /\ ui' = <<Elem("error", "missing_key", 0, <<>>)>>
     ELSE /\ pc' = "waiting"
          /\ request_log' = <<[url |-> RequestUrl(auth_key, station_id, selected_date),
                               timeout |-> 10]>>
          /\ ui' = <<>>
  /\ UNCHANGED <<auth_key, station_id, selected_date>>

\* requests.get returns: the rest of the handler, by the status code.
ReceiveResponse(status, text) ==
  /\ pc = "waiting"
  /\ pc' = "done"
  /\ response' = [status |-> status, text |-> text, raised |-> ""]
  /\ IF IsOK(status)
     THEN LET p == parse_kma_data(text)
              r == Dispatch(p.frame, text, station_id, selected_date)
          IN  /\ text_data' = text
              /\ df' = p.frame
              /\ parser_calls' = 1
              /\ result_df' = r.result
              /\ projections' = r.projected
              /\ ui' = p.out \o r.out
     ELSE /\ ui' = RequestFailed(status, text)
          /\ UNCHANGED <<text_data, df, result_df, parser_calls, projections>>
  /\ UNCHANGED <<auth_key, station_id, selected_date, button, request_log>>

\* Variant that issues the request again.
RaiseRequestExceptionRetry(e) ==
  /\ pc = "waiting"
  /\ Len(request_log) < 2
  /\ pc' = "waiting"
  /\ request_log' = request_log \o request_log
  /\ UNCHANGED <<auth_key, station_id, selected_date, button, response, ui,
                 text_data, df, result_df, parser_calls, projections>>

\* Variant without the except clause: the run ends with the traceback.
RaiseRequestExceptionUncaught(e) ==
  /\ pc = "waiting"
  /\ pc' = "crashed"
  /\ response' = [status |-> 0, text |-> <<>>, raised |-> e]
  /\ ui' = <<Elem("exception", "traceback", 0, <<e>>)>>
  /\ UNCHANGED <<auth_key, station_id, selected_date, button, request_log,
                 text_data, df, result_df, parser_calls, projections>>

\* requests.get raises a RequestException: the except clause reports it.
RaiseRequestException(e) ==
  /\ pc = "waiting"
  /\ pc' = "done"
  /\ response' = [status |-> 0, text |-> <<>>, raised |-> e]
  /\ ui' = <<Elem("error", "network_error", 0, <<e>>)>>
  /\ UNCHANGED <<auth_key, station_id, selected_date, button, request_log,
                 text_data, df, result_df, parser_calls, projections>>

Next ==
  \/ \E k \in AuthKeys : EnterAuthKey(k)
  \/ \E s \in Stations : SelectStation(s)
  \/ \E d \in Dates : PickDate(d)
  \/ PressButton
  \/ \E status \in StatusCodes, text \in BodyTexts : ReceiveResponse(status, text)
  \/ \E e \in NetworkErrors : RaiseRequestException(e)

Spec == Init /\ [][Next]_vars

(* ---------------- the parser and its caller, on texts ---------------- *)

InitParser ==
  /\ auth_key = "KEY"
  /\ station_id = "22101"
  /\ selected_date = <<2024, 1, 1>>
  /\ button = TRUE
  /\ pc = "input"
  /\ request_log = <<>>
  /\ response = NoResponse
  /\ text_data \in Texts
  /\ df = EmptyFrame
  /\ result_df = <<>>
  /\ ui = <<>>
  /\ parser_calls = 0
  /\ projections = 0

\* df = parse_kma_data(data_text)
ParseStep ==
  /\ pc = "input"
  /\ pc' = "parsed"
  /\ df' = parse_kma_data(text_data).frame
  /\ ui' = parse_kma_data(text_data).out
  /\ parser_calls' = 1
  /\ UNCHANGED <<auth_key, station_id, selected_date, button, request_log,
                 response, text_data, result_df, projections>>

\* The caller's handling of the table returned.
DispatchStep ==
  /\ pc = "parsed"
  /\ pc' = "dispatched"
  /\ LET r == Dispatch(df, text_data, station_id, selected_date)
     IN  /\ result_df' = r.result
         /\ projections' = r.projected
         /\ ui' = ui \o r.out
  /\ UNCHANGED <<auth_key, station_id, selected_date, button, request_log,
                 response, text_data, df, parser_calls>>

NextParser == ParseStep \/ DispatchStep

SpecParser == InitParser /\ [][NextParser]_vars

(* ===================================================================== *)
(* Properties                                                            *)
(* ===================================================================== *)

Shows(kind, msg) ==
  \E i \in 1..Len(ui) : ui[i].kind = kind /\ ui[i].msg = msg

ShowsKind(kind) == \E i \in 1..Len(ui) : ui[i].kind = kind

\* The raw text t is displayed (st.code).
ShowsRaw(t) ==
  \E i \in 1..Len(ui) : ui[i].kind = "code" /\ ui[i].body = t

ChartShown == ShowsKind("line_chart")

TableShown == ShowsKind("dataframe")

\* The display states of a press.
MissingCredentials == Shows("error", "missing_key")

RequestFailedState == Shows("error", "request_failed")

NoDataState == Shows("error", "no_data") \/ Shows("warning", "no_valid")

SuccessState == ShowsKind("success")

NetworkErrorState == Shows("error", "network_error")

StateCount ==
  Cardinality({ n \in 1..4 :
                  \/ n = 1 /\ RequestFailedState
                  \/ n = 2 /\ NoDataState
                  \/ n = 3 /\ SuccessState
                  \/ n = 4 /\ NetworkErrorState })

\* C1: a press with an empty auth key issues no request and shows only the
\* "missing credentials" message: the parser is not called and neither the
\* chart nor the table is rendered, whatever the station and the date.
C1_EmptyKeyShortCircuits ==
  (button /\ auth_key = "") =>
    /\ pc = "done"
    /\ request_log = <<>>
    /\ response = NoResponse
    /\ Len(ui) = 1 /\ MissingCredentials
    /\ parser_calls = 0 /\ projections = 0
    /\ ~ChartShown /\ ~TableShown

C1_Witness ==
  button /\ auth_key = "" /\ station_id = "22102" /\ selected_date = <<2024, 12, 31>>

\* C2: a press with a non-empty auth key issues exactly one GET, never a
\* second one, and once the handler has ended exactly one of the four
\* display states (request failed, no data, success, network error) is shown.
C2_OneRequestOneState ==
  (button /\ auth_key # "") =>
    /\ Len(request_log) = 1
    /\ request_log[1].url = RequestUrl(auth_key, station_id, selected_date)
    /\ pc \in {"waiting", "done"}
    /\ pc = "waiting" => StateCount = 0
    /\ pc = "done" => StateCount = 1 /\ ~MissingCredentials

C2_Witness ==
  button /\ auth_key # "" /\ pc = "done" /\ Shows("warning", "no_valid")

\* C3 as stated: with status 200, a table that is empty after parsing, lacks
\* TM or TW, or is empty after projection and filtering leads to the
\* "no data" state with the raw response body shown, and no chart or table.
C3_Original ==
  (button /\ pc = "done" /\ response.status = StatusOK
     /\ (~HasData(df) \/ result_df = <<>>)) =>
    /\ NoDataState
    /\ ShowsRaw(response.text)
    /\ ~ChartShown /\ ~TableShown

\* C3 as amended: with status 200, a table that is empty after parsing or
\* lacks TM or TW is answered by the "no data" error and the raw response
\* body; a table that is empty only after projection and filtering is
\* answered by the "no valid data" warning alone, without the raw body; in
\* both cases no chart or table is rendered.
C3_Amended ==
  (button /\ pc = "done" /\ response.status = StatusOK) =>
    /\ ~HasData(df) =>
         /\ Shows("error", "no_data") /\ ShowsRaw(response.text)
         /\ ~Shows("warning", "no_valid")
         /\ ~ChartShown /\ ~TableShown /\ ~SuccessState
    /\ (HasData(df) /\ result_df = <<>>) =>
         /\ Len(ui) = 1 /\ Shows("warning", "no_valid")
         /\ ~ShowsKind("code")
         /\ ~ChartShown /\ ~TableShown

C3_Witness ==
  /\ button /\ pc = "done" /\ response.status = StatusOK
  /\ HasData(df) /\ result_df = <<>> /\ Len(df.rows) = 2

\* C4: a response whose status is not 200 leads to the "request failed"
\* state showing the status code and the raw body; the parser and the
\* projection are not run on it and neither chart nor table is rendered.
C4_Non200RequestFailed ==
  (button /\ pc = "done" /\ response.status \notin {0, StatusOK}) =>
    /\ \E i \in 1..Len(ui) : /\ ui[i].kind = "error"
                              /\ ui[i].msg = "request_failed"
                              /\ ui[i].code = response.status
    /\ ShowsRaw(response.text)
    /\ parser_calls = 0 /\ projections = 0
    /\ df = EmptyFrame /\ result_df = <<>>
    /\ ~ChartShown /\ ~TableShown /\ ~SuccessState

C4_Witness ==
  /\ button /\ pc = "done" /\ response.status = 404
  /\ parse_kma_data(response.text).frame.rows # <<>>

\* C5: the chart and the table are rendered if and only if the auth key is
\* non-empty, the status is 200 and at least one row survives projection
\* and filtering; when they are rendered no error or warning is shown.
C5_RenderedIffRows ==
  /\ ChartShown <=> TableShown
  /\ ChartShown <=> ( /\ button /\ auth_key # ""
                      /\ response.status = StatusOK
                      /\ result_df # <<>> )
  /\ ChartShown => ~ShowsKind("error") /\ ~ShowsKind("warning")
  /\ ChartShown =>
       \A i \in 1..Len(ui) :
          ui[i].kind \in {"line_chart", "dataframe"} => ui[i].body = result_df

C5_Witness == ChartShown /\ TableShown /\ Len(result_df) = 2

\* C6: when requests.get fails at the network level the "network error"
\* state shows the underlying error: the parser is not run, no chart or
\* table is rendered, the request is not retried and the handler ends.
C6_NetworkError ==
  (button /\ response.raised # "") =>
    /\ pc = "done"
    /\ ui = <<Elem("error", "network_error", 0, <<response.raised>>)>>
    /\ Len(request_log) = 1
    /\ parser_calls = 0 /\ projections = 0
    /\ ~ChartShown /\ ~TableShown

C6_Witness == button /\ response.raised = "Timeout" /\ pc = "done"

(* ------------------------ the parser's claims ------------------------ *)

\* The tokens of a line as the specification counts them: separated by
\* runs of whitespace and commas alike.
SpecTokens(line) == SplitOn(line, Whitespace \cup {","})

\* The first non-whitespace character of the line is '#'.
CommentLine(line) ==
  \E i \in 1..Len(line) :
     line[i] = "#" /\ \A j \in 1..(i - 1) : line[j] \in Whitespace

\* The lines of text_data that are no comment lines, in order.
NonCommentLines ==
  LET ls == SplitLines(text_data)
      F[i \in 0..Len(ls)] ==
        IF i = 0 THEN <<>>
        ELSE IF CommentLine(ls[i]) THEN F[i - 1] ELSE Append(F[i - 1], ls[i])
  IN  F[Len(ls)]

\* The non-comment lines that hold a token, split at whitespace.
DataRows ==
  LET ls == NonCommentLines
      F[i \in 0..Len(ls)] ==
        IF i = 0 THEN <<>>
        ELSE IF SplitOn(ls[i], Whitespace) = <<>> THEN F[i - 1]
        ELSE Append(F[i - 1], SplitOn(ls[i], Whitespace))
  IN  F[Len(ls)]

ParseErrorShown == Shows("error", "parse_error")

\* C7 as stated: a text of well-formed data lines, each of 24 tokens
\* separated by runs of commas, spaces or tabs or mixtures of them, parses
\* to the same 24 field values per line whichever delimiter is used.
C7_DelimiterIndependent ==
  (pc # "input" /\ NonCommentLines # <<>>
     /\ \A i \in 1..Len(NonCommentLines) :
           Len(SpecTokens(NonCommentLines[i])) = NCols) =>
    /\ Len(df.rows) = Len(NonCommentLines)
    /\ \A i \in 1..Len(NonCommentLines) : \A c \in 1..NCols :
          df.rows[i][c] = Cell(SpecTokens(NonCommentLines[i])[c])

\* C8 as stated: if any non-comment line has a token count different from
\* 24 (here: a line that holds a token), the parse is aborted: a parse error is reported and no rows are
\* yielded, and the caller displays the raw text and neither projects nor
\* renders.
C8_Original ==
  (pc # "input"
     /\ \E i \in 1..Len(NonCommentLines) :
           Len(SpecTokens(NonCommentLines[i])) \notin {0, NCols}) =>
    /\ ParseErrorShown
    /\ df.rows = <<>>
    /\ pc = "dispatched" =>
         ShowsRaw(text_data) /\ projections = 0 /\ ~ChartShown /\ ~TableShown

\* The width of the table read from the data rows, and whether a row after
\* the first exceeds it.
C8_Width == IF Len(DataRows[1]) > NCols THEN Len(DataRows[1]) ELSE NCols

C8_Overlong == \E i \in 2..Len(DataRows) : Len(DataRows[i]) > C8_Width

\* C8 as amended: if a data line after the first has more whitespace-
\* separated tokens than the table is wide (24, or the token count of the
\* first data line when that is larger), the parse is aborted: a parse error
\* is reported, no rows are yielded, and the caller displays the raw text
\* and neither projects nor renders.  Otherwise no error is reported and
\* every data line yields a row: a line with fewer tokens is filled up with
\* missing values, and when the first data line has more than 24 tokens the
\* leading tokens become the row index and the columns shift.
C8_Amended ==
  (pc # "input" /\ DataRows # <<>>) =>
    LET rows  == DataRows
        width == IF Len(rows[1]) > NCols THEN Len(rows[1]) ELSE NCols
        over  == \E i \in 2..Len(rows) : Len(rows[i]) > width
    IN  /\ over =>
             /\ ParseErrorShown
             /\ df = EmptyFrame
             /\ pc = "dispatched" =>
                  /\ ShowsRaw(text_data) /\ Shows("error", "no_data")
                  /\ projections = 0 /\ result_df = <<>>
                  /\ ~ChartShown /\ ~TableShown
        /\ ~over =>
             /\ ~ParseErrorShown
             /\ df.rows =
                  [i \in 1..Len(rows) |->
                     [c \in 1..NCols |->
                        IF c + (width - NCols) <= Len(rows[i])
                        THEN Cell(rows[i][c + (width - NCols)]) ELSE NaNCell]]

C8_Witness ==
  /\ pc = "dispatched" /\ DataRows # <<>> /\ C8_Overlong
  /\ Len(DataRows[1]) < NCols

\* C9: for a text that is empty or holds only lines whose first
\* non-whitespace character is '#', and so whenever no line remains after
\* the comment lines are discarded, parse_kma_data returns an empty table
\* and reports no error.
C9_CommentsOnlyEmptyTable ==
  (pc # "input" /\ NonCommentLines = <<>>) =>
    /\ df = EmptyFrame
    /\ Empty(df)
    /\ ~ParseErrorShown

C9_Witness ==
  /\ pc = "parsed" /\ NonCommentLines = <<>>
  /\ Len(SplitLines(text_data)) = 2
  /\ SplitLines(text_data)[2][1] = " "

\* The token is a timestamp in the form YYYYMMDDHHMM / reads as a number.
IsTimestampToken(cell) == Len(cell) = 1 /\ cell[1] \in TimestampWords

IsNumberToken(cell) == Len(cell) = 1 /\ cell[1] \in IntWords \cup FloatWords

====
